---- MODULE Spec2Model ----
(***************************************************************************)
(* Model of the similarity experiment client (experiment.js): the trial    *)
(* generation algorithm (generateTrials / shuffleArray) and the page       *)
(* session driven by the click handlers installed by setupEventListeners,  *)
(* together with the export decoding of api/export.                        *)
(*                                                                         *)
(* Strings that are compared or concatenated by the code (product ids,     *)
(* pairId) are sequences of UTF-16 code units, so that Array.prototype.sort *)
(* and SPLIT_PART are computed and not assumed.                            *)
(***************************************************************************)
EXTENDS Integers, Sequences, FiniteSets

\* ------------------------------------------------------------------ bounds

\* Largest catalog the generation specification draws.
MaxProducts == 3
\* CONFIG.N_PAIRS is drawn from 0..MaxNPairs in the generation specification.
MaxNPairs == 3
\* CONFIG.N_PAIRS is drawn from 0..SessMaxNPairs in the session specification.
SessMaxNPairs == 1
\* Consent clicks of one page session.
MaxConsentClicks == 2
\* Handlers that may be suspended on a network call at the same time.
MaxSuspended == 2
\* Submit clicks of one page session.
MaxSubmitClicks == 2

\* ------------------------------------------------------------- strings

\* The code unit of '_', the separator of pairId.
Underscore == 95

\* The ids of the model, "A", "B", "AB", "A_B" and "B_B", as code units.
IdA == <<65>>
IdB == <<66>>
IdAB == <<65, 66>>
IdA_B == <<65, Underscore, 66>>
IdB_B == <<66, Underscore, 66>>

\* The value of product.id for a catalog entry that has no id (undefined):
\* a marker that is no string.
Undefined == <<-1>>

\* String(undefined), as a template literal prints it: "undefined".
UndefinedText == <<117, 110, 100, 101, 102, 105, 110, 101, 100>>

\* s < t in the order of Array.prototype.sort() without a comparator: by
\* UTF-16 code units, a proper prefix first.
RECURSIVE StrLess(_, _)
StrLess(s, t) ==
  IF t = <<>> THEN FALSE
  ELSE IF s = <<>> THEN TRUE
  ELSE IF Head(s) # Head(t) THEN Head(s) < Head(t)
  ELSE StrLess(Tail(s), Tail(t))

SortTwo_Descending(a, b) == IF StrLess(a, b) THEN <<b, a>> ELSE <<a, b>>

\* [a, b].sort(): the two strings in ascending order (stable when equal);
\* undefined is moved behind every string.
SortTwo(a, b) ==
  IF b = Undefined THEN <<a, b>>
  ELSE IF a = Undefined THEN <<b, a>>
  ELSE IF StrLess(b, a) THEN <<b, a>> ELSE <<a, b>>

\* An element as Array.prototype.join prints it: undefined as ''.
JoinText(x) == IF x = Undefined THEN <<>> ELSE x

\* An element as a template literal prints it.
TemplateText(x) == IF x = Undefined THEN UndefinedText ELSE x

\* [a, b].join('_')
JoinUnderscore(pair) == JoinText(pair[1]) \o <<Underscore>> \o JoinText(pair[2])

\* ------------------------------------------------------------ shuffleArray

Swap_Overwrite(array, p, q) == [array EXCEPT ![p] = array[q]]

\* [array[i], array[j]] = [array[j], array[i]]
Swap(array, p, q) == [array EXCEPT ![p] = array[q], ![q] = array[p]]

\* The draws of one shuffleArray call on an array of length n: for every
\* loop index i = n-1 .. 1 (position p = i+1 here, sequences being 1-based)
\* j = floor(Math.random() * (i + 1)) is one of 0..i (position 1..p).
ShuffleDraws(n) == { d \in [2..n -> 1..n] : \A p \in 2..n : d[p] <= p }

RECURSIVE ShuffleFrom_SequentialAssign(_, _, _)
ShuffleFrom_SequentialAssign(array, d, p) ==
  IF p < 2 THEN array
  ELSE ShuffleFrom_SequentialAssign([array EXCEPT ![p] = array[d[p]]], d, p - 1)

\* The for loop from position p down to position 2.
RECURSIVE ShuffleFrom(_, _, _)
ShuffleFrom(array, d, p) ==
  IF p < 2 THEN array
  ELSE ShuffleFrom(Swap(array, p, d[p]), d, p - 1)

\* The number of loop iterations (swap steps) of the for loop started at
\* position p.
RECURSIVE ShuffleSteps(_, _, _)
ShuffleSteps(array, d, p) ==
  IF p < 2 THEN 0
  ELSE 1 + ShuffleSteps(Swap(array, p, d[p]), d, p - 1)

\* shuffleArray(array) under the draws d.
ShuffleArray(array, d) == ShuffleFrom(array, d, Len(array))

\* ----------------------------------------------------------- generateTrials

\* The pairs pushed by the inner loop for one i: j = i+1 .. length-1.
RECURSIVE PairsRow(_, _, _)
PairsRow(prods, i, j) ==
  IF j > Len(prods) THEN <<>>
  ELSE << [products |-> <<prods[i], prods[j]>>, isCatchTrial |-> FALSE] >>
       \o PairsRow(prods, i, j + 1)

\* The nested loops of generateTrials: all pairs i < j in catalog order.
RECURSIVE PairsFrom(_, _)
PairsFrom(prods, i) ==
  IF i > Len(prods) THEN <<>>
  ELSE PairsRow(prods, i, i + 1) \o PairsFrom(prods, i + 1)

AllPairs_WithSelf(prods) ==
  PairsFrom(prods, 1)
    \o [k \in 1..Len(prods) |-> [products |-> <<prods[k], prods[k]>>, isCatchTrial |-> FALSE]]

\* const pairs after the nested loops.
AllPairs(prods) == PairsFrom(prods, 1)

Slice_OneMore(array, n) ==
  SubSeq(array, 1, IF n + 1 < Len(array) THEN n + 1 ELSE Len(array))

\* array.slice(0, n)
Slice(array, n) == SubSeq(array, 1, IF n < Len(array) THEN n ELSE Len(array))

CatchTrial_TwoProducts(prods, c) ==
  [products |-> <<prods[c], prods[(c % Len(prods)) + 1]>>, isCatchTrial |-> TRUE]

\* The catch trial built from products[Math.floor(Math.random() * length)].
CatchTrial(prods, c) == [products |-> <<prods[c], prods[c]>>, isCatchTrial |-> TRUE]

PairIdOf_Unsorted(trial) ==
  JoinUnderscore(<<trial.products[1].id, trial.products[2].id>>)

\* pairId of a trial before formatting.
PairIdOf(trial) ==
  LET a == trial.products[1].id
      b == trial.products[2].id
  IN IF trial.isCatchTrial THEN TemplateText(a) \o <<Underscore>> \o TemplateText(a)
     ELSE JoinUnderscore(SortTwo(a, b))

PositionOf_StrictlyFirst(trial, leftProduct) ==
  LET sortedFirst == SortTwo(trial.products[1].id, trial.products[2].id)[1]
  IN IF leftProduct.id = sortedFirst /\ trial.products[1].id # trial.products[2].id
     THEN "AB" ELSE "BA"

PositionOf_FromCoin(trial, leftProduct) ==
  IF leftProduct.id = trial.products[1].id THEN "AB" ELSE "BA"

\* position: 'AB' when the id on the left is the first of the sorted ids.
PositionOf(trial, leftProduct) ==
  LET sortedFirst == SortTwo(trial.products[1].id, trial.products[2].id)[1]
  IN IF leftProduct.id = sortedFirst THEN "AB" ELSE "BA"

FormatTrial_CoinPosition(trial, aOnLeft) ==
  LET productA == trial.products[1]
      productB == trial.products[2]
  IN [ left |-> IF aOnLeft THEN productA ELSE productB,
       right |-> IF aOnLeft THEN productB ELSE productA,
       pairId |-> PairIdOf(trial),
       position |-> IF aOnLeft THEN "AB" ELSE "BA",
       isCatchTrial |-> trial.isCatchTrial ]

\* The body of allTrials.map: one trial formatted under the coin aOnLeft.
FormatTrial(trial, aOnLeft) ==
  LET productA == trial.products[1]
      productB == trial.products[2]
      leftProduct == IF aOnLeft THEN productA ELSE productB
      rightProduct == IF aOnLeft THEN productB ELSE productA
  IN [ left |-> leftProduct,
       right |-> rightProduct,
       pairId |-> PairIdOf(trial),
       position |-> PositionOf(trial, leftProduct),
       isCatchTrial |-> trial.isCatchTrial ]

\* regularTrials: the shuffled pair list cut to N_PAIRS.
RegularTrials(prods, n, d1) == Slice(ShuffleArray(AllPairs(prods), d1), n)

CombinedTrials_NoCatch(regular, catch, d2) == ShuffleArray(regular, d2)

\* allTrials after the second shuffle.
CombinedTrials(regular, catch, d2) == ShuffleArray(Append(regular, catch), d2)

\* trials = allTrials.map(...) under the coins (one per trial).
FormatAll(all, coins) == [k \in 1..Len(all) |-> FormatTrial(all[k], coins[k])]

\* ------------------------------------------------------------------ export

\* Position of the first separator in s at or after position p, or
\* Len(s) + 1 when there is none.
RECURSIVE NextSep(_, _)
NextSep(s, p) ==
  IF p > Len(s) THEN Len(s) + 1
  ELSE IF s[p] = Underscore THEN p
  ELSE NextSep(s, p + 1)

\* SPLIT_PART(s, '_', n): the n-th field of s split at every '_', the empty
\* string when s has fewer fields.
RECURSIVE SplitFrom(_, _, _)
SplitFrom(s, p, n) ==
  LET e == NextSep(s, p)
  IN IF n = 1 THEN SubSeq(s, p, e - 1)
     ELSE IF e > Len(s) THEN <<>>
     ELSE SplitFrom(s, e + 1, n - 1)

SplitPart(s, n) == SplitFrom(s, 1, n)

\* left_product of the export query.
ExportLeft(pair_id, position) ==
  IF position = "AB" THEN SplitPart(pair_id, 1) ELSE SplitPart(pair_id, 2)

\* right_product of the export query.
ExportRight(pair_id, position) ==
  IF position = "AB" THEN SplitPart(pair_id, 2) ELSE SplitPart(pair_id, 1)

\* --------------------------------------------------------------- catalogs

Product(id) == [id |-> id]

\* The order `order` restricted to the positions in S.
RECURSIVE Restrict(_, _, _)
Restrict(order, S, p) ==
  IF p > Len(order) THEN <<>>
  ELSE (IF p \in S THEN <<Product(order[p])>> ELSE <<>>) \o Restrict(order, S, p + 1)

\* Two catalog orders over the ids "B", "A", "A_B", "AB", one the reverse of
\* the other: every pair of ids occurs in both orders, and neither order is
\* sorted.
CatalogOrders == { <<IdB, IdA, IdA_B, IdAB>>, <<IdAB, IdA_B, IdA, IdB>> }

\* data.products of the stimulus file: a catalog of lo..hi products with
\* unique ids, in one of the catalog orders.
Catalogs(lo, hi) ==
  { Restrict(order, S, 1) :
      order \in CatalogOrders,
      S \in { T \in SUBSET (1..4) : Cardinality(T) >= lo /\ Cardinality(T) <= hi } }

\* A catalog whose ids hold the separator: "A", "B_B", "A_B", "B".
SeparatorCatalogs ==
  { <<Product(IdA), Product(IdB_B), Product(IdA_B), Product(IdB)>>,
    <<Product(IdB), Product(IdA_B), Product(IdB_B), Product(IdA)>> }

\* ------------------------------------------------------------------ state

VARIABLES
  products,       \* let products
  nPairs,         \* CONFIG.N_PAIRS
  trials,         \* let trials
  genPc,          \* position inside generateTrials
  regularTrials,  \* const regularTrials
  allTrials       \* const allTrials

VARIABLES
  loading,          \* init() is suspended on the fetch of the stimulus file
  initAlert,        \* the alert init() has raised: none, loadFailed, tooFew
  listeners,        \* setupEventListeners has run
  page,             \* the argument of the last showPage call (the consent page before the first)
  visiblePages,     \* the pages whose class list does not hold hidden
  currentTrial,     \* let currentTrial (0-based, as in the code)
  results,          \* let results
  startTimeSet,     \* startTime !== null
  sliderMoved,      \* let sliderMoved
  nextDisabled,     \* nextBtn.disabled
  shown,            \* index of the trial whose products the trial page holds, -1: none
  sessionId,        \* let sessionId, 0: null
  serverSessions,   \* rows of the sessions table created for this page
  sessionPosts,     \* POST /api/session calls issued
  consentPending,   \* consent handlers suspended in createSession
  sq2,              \* checked answer of screening question sq2
  sqOthers,         \* every other screening question is answered
  continueDisabled, \* screeningContinueBtn.disabled
  redirectMessage,  \* screeningRedirectMessage.textContent has been set
  comp,             \* the comprehension answers: incomplete, wrong, correct
  startDisabled,    \* startBtn.disabled
  errorHidden,      \* comprehensionError is hidden
  trialPosts,       \* the bodies of the POST /api/trial calls issued, in order
  nextPending,      \* Next handlers suspended in recordResponse
  failedTrialLog,   \* console.error('Failed to record trial:') calls
  typeError,        \* a TypeError was thrown (trials[currentTrial] undefined)
  demoValid,        \* age and gender inputs are valid
  submitDisabled,   \* demographicsSubmitBtn.disabled
  demoPosts,        \* POST /api/demographics calls issued
  demoPending,      \* Submit handlers suspended in saveDemographics
  completePosts,    \* POST /api/complete calls issued
  completePending,  \* Submit handlers suspended in completeSession
  completedFlag,    \* localStorage holds the completion key
  storageError,     \* localStorage.setItem has thrown (storage disabled)
  sentSessionIds    \* the session_id values of the trial, demographics and completion calls issued

VARIABLES
  trialRows,        \* the rows of the trials table
  recorded,         \* the POST /api/trial bodies that were answered 201
  dbUp,             \* the database executes the statements it is sent
  exportKey,        \* process.env.EXPORT_API_KEY
  request,          \* the request the server handled last
  reply             \* the response to it

genVars == <<products, nPairs, trials, genPc, regularTrials, allTrials>>
consentVars == <<sessionId, serverSessions, sessionPosts, consentPending>>
screeningVars == <<sq2, sqOthers, continueDisabled, redirectMessage>>
instructionVars == <<comp, startDisabled, errorHidden>>
trialVars == <<currentTrial, results, startTimeSet, sliderMoved, nextDisabled, shown,
               trialPosts, nextPending, failedTrialLog, typeError>>
demoVars == <<demoValid, submitDisabled, demoPosts, demoPending, completePosts,
              completePending, completedFlag, storageError>>
serverVars == <<trialRows, recorded, dbUp, exportKey, request, reply>>
sessionVars == <<loading, initAlert, listeners, page, visiblePages, consentVars, screeningVars, instructionVars,
                 trialVars, demoVars, sentSessionIds, serverVars>>
vars == <<genVars, sessionVars>>

\* The state of the page when the module has been evaluated: the let
\* declarations of lines 3-15, the consent page visible, the Continue, Start
\* and Submit buttons disabled.
PageStart ==
  /\ loading = TRUE
  /\ initAlert = "none"
  /\ listeners = FALSE
  /\ page = "consent"
  /\ visiblePages = {"consent"}
  /\ currentTrial = 0
  /\ results = <<>>
  /\ startTimeSet = FALSE
  /\ sliderMoved = FALSE
  /\ nextDisabled = TRUE
  /\ shown = -1
  /\ sessionId = 0
  /\ serverSessions = 0
  /\ sessionPosts = 0
  /\ consentPending = 0
  /\ sq2 = "none"
  /\ sqOthers = FALSE
  /\ continueDisabled = TRUE
  /\ redirectMessage = FALSE
  /\ comp = "incomplete"
  /\ startDisabled = TRUE
  /\ errorHidden = TRUE
  /\ trialPosts = <<>>
  /\ nextPending = 0
  /\ failedTrialLog = 0
  /\ typeError = FALSE
  /\ demoValid = FALSE
  /\ submitDisabled = TRUE
  /\ demoPosts = 0
  /\ demoPending = 0
  /\ completePosts = 0
  /\ completePending = 0
  /\ sentSessionIds = {}
  /\ storageError = FALSE

\* The tables of a fresh database (schema.sql) behind a running server.
StoreStart ==
  /\ trialRows = {}
  /\ recorded = {}
  /\ dbUp = TRUE
  /\ request = [endpoint |-> "none"]
  /\ reply = [status |-> 0]

\* A first visit: nothing in localStorage; the server side is left out of the
\* page specifications (no export key, no request handled).
SessionStart ==
  /\ PageStart
  /\ completedFlag = FALSE
  /\ StoreStart
  /\ exportKey = Undefined

\* ------------------------------------------- generateTrials, statement by
\* statement (the generation specifications)

GenStart(catalogs) ==
  /\ products \in catalogs
  /\ nPairs \in 0..MaxNPairs
  /\ trials = <<>>
  /\ genPc = "pairs"
  /\ regularTrials = <<>>
  /\ allTrials = <<>>
  /\ SessionStart

GenRegular_ShufflesProducts ==
  /\ genPc = "pairs"
  /\ \E d1 \in ShuffleDraws(Len(products)) :
        /\ products' = ShuffleArray(products, d1)
        /\ regularTrials' = Slice(AllPairs(products'), nPairs)
  /\ genPc' = "catch"
  /\ UNCHANGED <<nPairs, trials, allTrials, sessionVars>>

\* Lines 217-228: enumerate the pairs, shuffle, slice.
GenRegular ==
  /\ genPc = "pairs"
  /\ \E d1 \in ShuffleDraws(Len(AllPairs(products))) :
        regularTrials' = RegularTrials(products, nPairs, d1)
  /\ genPc' = "catch"
  /\ UNCHANGED <<products, nPairs, trials, allTrials, sessionVars>>

\* Lines 230-238: the catch trial, the combined list, the second shuffle.
\* regularTrials is not read after this and is dropped from the state.
GenCombine ==
  /\ genPc = "catch"
  /\ \E c \in 1..Len(products) :
        \E d2 \in ShuffleDraws(Len(regularTrials) + 1) :
          allTrials' = CombinedTrials(regularTrials, CatchTrial(products, c), d2)
  /\ regularTrials' = <<>>
  /\ genPc' = "format"
  /\ UNCHANGED <<products, nPairs, trials, sessionVars>>

\* Lines 240-266: trials = allTrials.map(...), one coin per trial.
\* allTrials is not read after this and is dropped from the state.
GenFormat ==
  /\ genPc = "format"
  /\ \E coins \in [1..Len(allTrials) -> BOOLEAN] :
        trials' = FormatAll(allTrials, coins)
  /\ allTrials' = <<>>
  /\ genPc' = "done"
  /\ UNCHANGED <<products, nPairs, regularTrials, sessionVars>>

GenNext == GenRegular \/ GenCombine \/ GenFormat

GenInit == GenStart(Catalogs(2, MaxProducts))
SpecGen == GenInit /\ [][GenNext]_vars

\* Catalogs with an entry that has no id field.
MalformedCatalogs ==
  { <<Product(IdB), Product(Undefined)>>,
    <<Product(Undefined), Product(IdB), Product(IdA)>>,
    <<Product(IdA), Product(Undefined), Product(Undefined)>> }

\* init() passes these catalogs to generateTrials(): its only check is
\* products.length < 2.
GenInitMalformed == GenStart(MalformedCatalogs)
SpecGenMalformed == GenInitMalformed /\ [][GenNext]_vars

GenInitSep == GenStart(SeparatorCatalogs)
SpecGenSep == GenInitSep /\ [][GenNext]_vars

\* --------------------------------------- the legacy formatting (the
\* earlier experiment.js)

\* The ids "a" and "c" (lower case), as code units.
IdLowerA == <<97>>
IdLowerC == <<99>>

\* The primary collation key of an ASCII letter: its letter, whatever the
\* case.
CaseFold(c) == IF c >= 97 /\ c <= 122 THEN c - 32 ELSE c

PrimaryKey(s) == [k \in 1..Len(s) |-> CaseFold(s[k])]

LocaleLess_CodeUnits(s, t) == StrLess(s, t)

\* s.localeCompare(t) < 0 for strings of ASCII letters: the letters are
\* compared first, case ignored; strings equal up to case are ordered by
\* the first difference, lower case first (for such strings the order
\* depends on the locale's case-first setting; the catalogs of the model
\* hold no two ids equal up to case).
LocaleLess(s, t) ==
  IF PrimaryKey(s) # PrimaryKey(t)
  THEN StrLess(PrimaryKey(s), PrimaryKey(t))
  ELSE StrLess(t, s)

\* [pair[0], pair[1]].sort((a, b) => a.id.localeCompare(b.id))
LegacySorted(pair) ==
  IF LocaleLess(pair[2].id, pair[1].id) THEN <<pair[2], pair[1]>> ELSE pair

\* The callback of the legacy trials.map: the pair is sorted by id, the coin
\* puts productA on the left or on the right, and position is the coin.
LegacyFormatTrial(pair, aOnLeft) ==
  LET productA == LegacySorted(pair)[1]
      productB == LegacySorted(pair)[2]
  IN [ left |-> IF aOnLeft THEN productA ELSE productB,
       right |-> IF aOnLeft THEN productB ELSE productA,
       pairId |-> productA.id \o <<Underscore>> \o productB.id,
       position |-> IF aOnLeft THEN "AB" ELSE "BA" ]

\* Catalogs with ids of both cases: "a", "B", "c".
CaseCatalogs ==
  { <<Product(IdLowerA), Product(IdB), Product(IdLowerC)>>,
    <<Product(IdLowerC), Product(IdB), Product(IdLowerA)>> }

GenInitCase == GenStart(CaseCatalogs)
SpecGenCase == GenInitCase /\ [][GenNext]_vars

\* ------------------------------------ the formatting step run on the
\* trials of two page loads

\* The entries allTrials can hold for a catalog: a pair of the nested loops
\* or a catch trial.
FormatInputs(prods) ==
  { AllPairs(prods)[k] : k \in 1..Len(AllPairs(prods)) }
    \cup { CatchTrial(prods, c) : c \in 1..Len(prods) }

\* A catalog in the reverse order.
Reverse(prods) == [k \in 1..Len(prods) |-> prods[Len(prods) + 1 - k]]

\* allTrials holds one trial of a page load with the catalog as loaded and
\* one trial of a page load with the same catalog in reverse order, so that
\* the map callback (lines 241-266) formats the same pair with productA and
\* productB in both orders and under both coins.
FormatTwiceInit ==
  /\ products \in Catalogs(2, MaxProducts)
  /\ nPairs = 1
  /\ trials = <<>>
  /\ genPc = "format"
  /\ regularTrials = <<>>
  /\ allTrials \in { <<t1, t2>> : t1 \in FormatInputs(products),
                                  t2 \in FormatInputs(Reverse(products)) }
  /\ SessionStart

SpecFormatTwice == FormatTwiceInit /\ [][GenFormat]_vars

\* ---------------------------------------------------------- the session

\* The catalogs the session specification loads: too small (0 or 1
\* product), and the two products "B", "A".
SessionCatalogs ==
  { <<>>,
    <<Product(IdB)>>,
    <<Product(IdB), Product(IdA)>> }

\* generateTrials() as one call: every outcome of the two shuffles, the
\* catch draw and the coins.
GeneratedTrials(prods, n) ==
  { FormatAll(CombinedTrials(RegularTrials(prods, n, d1), CatchTrial(prods, c), d2), coins) :
      d1 \in ShuffleDraws(Len(AllPairs(prods))),
      c \in 1..Len(prods),
      d2 \in ShuffleDraws((IF n < Len(AllPairs(prods)) THEN n ELSE Len(AllPairs(prods))) + 1),
      coins \in [1..((IF n < Len(AllPairs(prods)) THEN n ELSE Len(AllPairs(prods))) + 1) -> BOOLEAN] }

Init ==
  /\ products = <<>>
  /\ nPairs \in 0..SessMaxNPairs
  /\ trials = <<>>
  /\ genPc = "idle"
  /\ regularTrials = <<>>
  /\ allTrials = <<>>
  /\ SessionStart

\* The nine pages of showPage().
AllPages ==
  {"consent", "noConsent", "alreadyCompleted", "screening", "screeningFailed",
   "instructions", "trial", "demographics", "complete"}

ShowPage_KeepsOthers(p) ==
  /\ page' = p
  /\ visiblePages' = visiblePages \cup {p}

\* showPage(p): hidden is added to every page, then removed from p.
ShowPage(p) ==
  /\ page' = p
  /\ visiblePages' = ((visiblePages \ AllPages) \cup {p})

\* The handlers suspended on a network call.
Suspended == consentPending + nextPending + demoPending + completePending

\* showTrial(): the trial at currentTrial is put on the trial page, the
\* slider reset and Next disabled; with trials[cur] undefined the access
\* trial.left throws before anything of that is done.
ShowTrial(cur) ==
  IF cur < Len(trials)
  THEN /\ shown' = cur
       /\ sliderMoved' = FALSE
       /\ nextDisabled' = TRUE
       /\ typeError' = typeError
  ELSE /\ typeError' = TRUE
       /\ UNCHANGED <<shown, sliderMoved, nextDisabled>>

InitLoad_NoLengthCheck ==
  /\ loading
  /\ loading' = FALSE
  /\ \E loaded \in BOOLEAN : \E catalog \in SessionCatalogs :
       IF loaded
       THEN /\ products' = catalog
            /\ trials' \in GeneratedTrials(catalog, nPairs)
            /\ listeners' = TRUE
            /\ initAlert' = "none"
       ELSE /\ initAlert' = "loadFailed"
            /\ UNCHANGED <<products, trials, listeners>>
  /\ UNCHANGED <<serverVars, sentSessionIds, nPairs, genPc, regularTrials, allTrials, page, visiblePages, consentVars,
                 screeningVars, instructionVars, trialVars, demoVars>>

\* init(): the stimulus file is fetched; on a failed fetch it alerts and
\* returns; on a catalog of fewer than 2 products it alerts and returns;
\* otherwise generateTrials() and setupEventListeners() run.
InitLoad ==
  /\ loading
  /\ loading' = FALSE
  /\ \E loaded \in BOOLEAN : \E catalog \in SessionCatalogs :
       IF ~loaded
       THEN /\ initAlert' = "loadFailed"
            /\ UNCHANGED <<products, trials, listeners>>
       ELSE IF Len(catalog) < 2
       THEN /\ products' = catalog
            /\ initAlert' = "tooFew"
            /\ UNCHANGED <<trials, listeners>>
       ELSE /\ products' = catalog
            /\ trials' \in GeneratedTrials(catalog, nPairs)
            /\ listeners' = TRUE
            /\ initAlert' = "none"
  /\ UNCHANGED <<serverVars, sentSessionIds, nPairs, genPc, regularTrials, allTrials, page, visiblePages, consentVars,
                 screeningVars, instructionVars, trialVars, demoVars>>

\* consentBtn click: createSession() issues POST /api/session and the
\* handler is suspended until it settles.
ConsentClick ==
  /\ listeners
  /\ page = "consent"
  /\ sessionPosts < MaxConsentClicks
  /\ Suspended < MaxSuspended
  /\ sessionPosts' = sessionPosts + 1
  /\ consentPending' = consentPending + 1
  /\ UNCHANGED <<genVars, serverVars, sentSessionIds, loading, initAlert, listeners, page, visiblePages, sessionId, serverSessions, screeningVars,
                 instructionVars, trialVars, demoVars>>

CreateSessionSettles_ProceedsAnyway ==
  /\ consentPending > 0
  /\ consentPending' = consentPending - 1
  /\ \E outcome \in {"created", "noId", "rejected"} :
       /\ ShowPage("screening")
       /\ IF outcome = "created"
          THEN /\ serverSessions' = serverSessions + 1
               /\ sessionId' = serverSessions + 1
          ELSE UNCHANGED <<serverSessions, sessionId>>
  /\ UNCHANGED <<genVars, serverVars, sentSessionIds, loading, initAlert, listeners, sessionPosts, screeningVars, instructionVars,
                 trialVars, demoVars>>

\* A createSession() call settles: the response carries a session_id (the
\* row was inserted), carries none (a 400 or 500 answer), or the fetch
\* rejects. The consent handler then shows the screening page or alerts.
CreateSessionSettles ==
  /\ consentPending > 0
  /\ consentPending' = consentPending - 1
  /\ \E outcome \in {"created", "noId", "rejected"} :
       IF outcome = "created"
       THEN /\ serverSessions' = serverSessions + 1
            /\ sessionId' = serverSessions + 1
            /\ ShowPage("screening")
       ELSE UNCHANGED <<serverSessions, sessionId, page, visiblePages>>
  /\ UNCHANGED <<genVars, serverVars, sentSessionIds, loading, initAlert, listeners, sessionPosts, screeningVars, instructionVars,
                 trialVars, demoVars>>

\* noConsentBtn click.
NoConsentClick ==
  /\ listeners
  /\ page = "consent"
  /\ ShowPage("noConsent")
  /\ UNCHANGED <<genVars, serverVars, sentSessionIds, loading, initAlert, listeners, consentVars, screeningVars, instructionVars,
                 trialVars, demoVars>>

\* validateScreening(): every screening question has a checked input.
ScreeningAllAnswered(a2, others) == a2 # "none" /\ others

\* A change event of a screening input: an answer to sq2, or the last of
\* the other questions answered; validateScreening sets the Continue button.
ScreeningChange ==
  /\ listeners
  /\ page = "screening"
  /\ \/ /\ \E v \in {"yes", "no"} : v # sq2 /\ sq2' = v
        /\ UNCHANGED sqOthers
     \/ /\ ~sqOthers
        /\ sqOthers' = TRUE
        /\ UNCHANGED sq2
  /\ continueDisabled' = ~ScreeningAllAnswered(sq2', sqOthers')
  /\ UNCHANGED <<genVars, serverVars, sentSessionIds, loading, initAlert, listeners, page, visiblePages, consentVars, instructionVars, trialVars,
                 demoVars, redirectMessage>>

\* checkScreeningFilter(): the coffee question sq2 is answered 'yes'.
CheckScreeningFilter == sq2 = "yes"

\* screeningContinueBtn click (CONFIG.SCREENING_FAIL_URL is null).
ScreeningContinueClick ==
  /\ listeners
  /\ page = "screening"
  /\ ~continueDisabled
  /\ continueDisabled' = ~ScreeningAllAnswered(sq2, sqOthers)
  /\ IF ~ScreeningAllAnswered(sq2, sqOthers) THEN UNCHANGED <<page, visiblePages, redirectMessage>>
     ELSE IF CheckScreeningFilter THEN ShowPage("instructions") /\ UNCHANGED redirectMessage
     ELSE ShowPage("screeningFailed") /\ redirectMessage' = TRUE
  /\ UNCHANGED <<genVars, serverVars, sentSessionIds, loading, initAlert, listeners, consentVars, sq2, sqOthers, instructionVars,
                 trialVars, demoVars>>

\* A change event of a comprehension input; enableStartIfAllAnswered sets
\* the Start button.
ComprehensionChange ==
  /\ listeners
  /\ page = "instructions"
  /\ \E v \in {"wrong", "correct"} : v # comp /\ comp' = v
  /\ startDisabled' = FALSE
  /\ UNCHANGED <<genVars, serverVars, sentSessionIds, loading, initAlert, listeners, page, visiblePages, consentVars, screeningVars, errorHidden,
                 trialVars, demoVars>>

StartClick_Regenerates ==
  /\ listeners
  /\ page = "instructions"
  /\ ~startDisabled
  /\ errorHidden' = (comp = "correct")
  /\ IF comp = "correct"
     THEN /\ startTimeSet' = TRUE
          /\ ShowPage("trial")
          /\ trials' \in GeneratedTrials(products, nPairs)
          /\ shown' = currentTrial
          /\ sliderMoved' = FALSE
          /\ nextDisabled' = TRUE
          /\ UNCHANGED typeError
     ELSE UNCHANGED <<trials, startTimeSet, page, visiblePages, shown, sliderMoved, nextDisabled, typeError>>
  /\ UNCHANGED <<serverVars, sentSessionIds, products, nPairs, genPc, regularTrials, allTrials, loading, initAlert,
                 listeners, consentVars, screeningVars, comp, startDisabled,
                 currentTrial, results, trialPosts, nextPending, failedTrialLog, demoVars>>

\* startBtn click: checkComprehension(), then the first showTrial().
StartClick ==
  /\ listeners
  /\ page = "instructions"
  /\ ~startDisabled
  /\ errorHidden' = (comp = "correct")
  /\ IF comp = "correct"
     THEN /\ startTimeSet' = TRUE
          /\ ShowPage("trial")
          /\ ShowTrial(currentTrial)
     ELSE UNCHANGED <<startTimeSet, page, visiblePages, shown, sliderMoved, nextDisabled, typeError>>
  /\ UNCHANGED <<genVars, serverVars, sentSessionIds, loading, initAlert, listeners, consentVars, screeningVars, comp, startDisabled,
                 currentTrial, results, trialPosts, nextPending, failedTrialLog, demoVars>>

\* slider input.
SliderInput ==
  /\ listeners
  /\ page = "trial"
  /\ sliderMoved' = TRUE
  /\ nextDisabled' = FALSE
  /\ UNCHANGED <<genVars, serverVars, sentSessionIds, loading, initAlert, listeners, page, visiblePages, consentVars, screeningVars, instructionVars,
                 currentTrial, results, startTimeSet, shown, trialPosts, nextPending,
                 failedTrialLog, typeError, demoVars>>

\* The entry recordResponse() pushes on results.
ResultEntry(trial) ==
  [pairId |-> trial.pairId, position |-> trial.position, isCatchTrial |-> trial.isCatchTrial]

\* The body recordTrialToServer() posts to /api/trial.
TrialBody(trial, trialNumber) ==
  [ trial_number |-> trialNumber,
    pair_id |-> trial.pairId,
    position |-> trial.position,
    left_product_id |-> trial.left.id,
    right_product_id |-> trial.right.id,
    is_catch_trial |-> trial.isCatchTrial ]

\* nextBtn click, up to the await: recordResponse() pushes the local result
\* and issues POST /api/trial for trials[currentTrial]; the handler is then
\* suspended until the call settles. With trials[currentTrial] undefined
\* recordResponse() rejects with a TypeError and the handler ends.
NextClick ==
  /\ listeners
  /\ page = "trial"
  /\ ~nextDisabled
  /\ Suspended < MaxSuspended
  /\ IF currentTrial < Len(trials)
     THEN /\ results' = Append(results, ResultEntry(trials[currentTrial + 1]))
          /\ trialPosts' = Append(trialPosts, TrialBody(trials[currentTrial + 1], currentTrial + 1))
          /\ nextPending' = nextPending + 1
          /\ UNCHANGED typeError
     ELSE /\ typeError' = TRUE
          /\ UNCHANGED <<results, trialPosts, nextPending>>
  /\ sentSessionIds' = IF currentTrial < Len(trials) THEN sentSessionIds \cup {sessionId}
                       ELSE sentSessionIds
  /\ UNCHANGED <<genVars, serverVars, loading, initAlert, listeners, page, visiblePages, consentVars, screeningVars, instructionVars,
                 currentTrial, startTimeSet, sliderMoved, nextDisabled, shown,
                 failedTrialLog, demoVars>>

TrialPostSettles_NoDemographics ==
  /\ nextPending > 0
  /\ nextPending' = nextPending - 1
  /\ \E outcome \in {"resolved", "rejected"} :
       failedTrialLog' = failedTrialLog + (IF outcome = "rejected" THEN 1 ELSE 0)
  /\ currentTrial' = currentTrial + 1
  /\ IF currentTrial' < Len(trials)
     THEN /\ ShowTrial(currentTrial')
          /\ UNCHANGED <<page, visiblePages>>
     ELSE UNCHANGED <<page, visiblePages, shown, sliderMoved, nextDisabled, typeError>>
  /\ UNCHANGED <<genVars, serverVars, sentSessionIds, loading, initAlert, listeners, consentVars, screeningVars, instructionVars,
                 results, startTimeSet, trialPosts, demoVars>>

TrialPostSettles_Rethrow ==
  /\ nextPending > 0
  /\ nextPending' = nextPending - 1
  /\ \E outcome \in {"resolved", "rejected"} :
       /\ failedTrialLog' = failedTrialLog + (IF outcome = "rejected" THEN 1 ELSE 0)
       /\ currentTrial' = currentTrial + (IF outcome = "rejected" THEN 0 ELSE 1)
       /\ IF outcome = "rejected"
          THEN UNCHANGED <<page, visiblePages, shown, sliderMoved, nextDisabled, typeError>>
          ELSE IF currentTrial' < Len(trials)
          THEN /\ ShowTrial(currentTrial')
               /\ UNCHANGED <<page, visiblePages>>
          ELSE /\ ShowPage("demographics")
               /\ UNCHANGED <<shown, sliderMoved, nextDisabled, typeError>>
  /\ UNCHANGED <<genVars, serverVars, sentSessionIds, loading, initAlert, listeners, consentVars, screeningVars, instructionVars,
                 results, startTimeSet, trialPosts, demoVars>>

\* A POST /api/trial settles and the Next handler suspended on it runs to
\* its end: a rejection is caught and logged by recordTrialToServer(), then
\* currentTrial++ and the next trial or the demographics page.
TrialPostSettles ==
  /\ nextPending > 0
  /\ nextPending' = nextPending - 1
  /\ \E outcome \in {"resolved", "rejected"} :
       failedTrialLog' = failedTrialLog + (IF outcome = "rejected" THEN 1 ELSE 0)
  /\ currentTrial' = currentTrial + 1
  /\ IF currentTrial' < Len(trials)
     THEN /\ ShowTrial(currentTrial')
          /\ UNCHANGED <<page, visiblePages>>
     ELSE /\ ShowPage("demographics")
          /\ UNCHANGED <<shown, sliderMoved, nextDisabled, typeError>>
  /\ UNCHANGED <<genVars, serverVars, sentSessionIds, loading, initAlert, listeners, consentVars, screeningVars, instructionVars,
                 results, startTimeSet, trialPosts, demoVars>>

\* An input event of the age field or a change of the gender select:
\* validateDemographics() sets the Submit button.
DemographicsInput ==
  /\ listeners
  /\ page = "demographics"
  /\ \E valid \in BOOLEAN :
       /\ demoValid' = valid
       /\ submitDisabled' = ~valid
  /\ UNCHANGED <<genVars, serverVars, sentSessionIds, loading, initAlert, listeners, page, visiblePages, consentVars, screeningVars, instructionVars,
                 trialVars, demoPosts, demoPending, completePosts, completePending,
                 completedFlag, storageError>>

\* demographicsSubmitBtn click, up to the first await: the button is
\* disabled and saveDemographics() issues POST /api/demographics.
SubmitClick ==
  /\ listeners
  /\ page = "demographics"
  /\ ~submitDisabled
  /\ demoPosts < MaxSubmitClicks
  /\ Suspended < MaxSuspended
  /\ submitDisabled' = TRUE
  /\ demoPosts' = demoPosts + 1
  /\ demoPending' = demoPending + 1
  /\ sentSessionIds' = sentSessionIds \cup {sessionId}
  /\ UNCHANGED <<genVars, serverVars, loading, initAlert, listeners, page, visiblePages, consentVars, screeningVars, instructionVars,
                 trialVars, demoValid, completePosts, completePending, completedFlag, storageError>>

DemographicsSettles_FlagAfterServer ==
  /\ demoPending > 0
  /\ demoPending' = demoPending - 1
  /\ ShowPage("complete")
  /\ UNCHANGED <<completedFlag, storageError>>
  /\ completePosts' = completePosts + 1
  /\ completePending' = completePending + 1
  /\ sentSessionIds' = sentSessionIds \cup {sessionId}
  /\ UNCHANGED <<genVars, serverVars, loading, initAlert, listeners, consentVars, screeningVars, instructionVars,
                 trialVars, demoValid, submitDisabled, demoPosts>>

\* A POST /api/demographics settles (a rejection is caught and logged) and
\* the Submit handler goes on into complete(): the completion page, the
\* local completion flag (setItem stores it, or throws and is caught), and
\* completeSession() issues POST /api/complete.
DemographicsSettles ==
  /\ demoPending > 0
  /\ demoPending' = demoPending - 1
  /\ ShowPage("complete")
  /\ \E stored \in BOOLEAN :
       /\ completedFlag' = (completedFlag \/ stored)
       /\ storageError' = (storageError \/ ~stored)
  /\ completePosts' = completePosts + 1
  /\ completePending' = completePending + 1
  /\ sentSessionIds' = sentSessionIds \cup {sessionId}
  /\ UNCHANGED <<genVars, serverVars, loading, initAlert, listeners, consentVars, screeningVars, instructionVars,
                 trialVars, demoValid, submitDisabled, demoPosts>>

\* A POST /api/complete settles and complete() ends. What follows, the
\* redirect timer or the testing message, writes no variable of the script
\* and is not part of the model.
CompleteSettles ==
  /\ completePending > 0
  /\ completePending' = completePending - 1
  /\ UNCHANGED <<genVars, serverVars, sentSessionIds, loading, initAlert, listeners, page, visiblePages, consentVars, screeningVars, instructionVars,
                 trialVars, demoValid, submitDisabled, demoPosts, demoPending,
                 completePosts, completedFlag, storageError>>

\* popstate (the back button): the handler pushes the state again; no
\* variable of the script is written.
PopState ==
  /\ listeners
  /\ UNCHANGED vars

Next ==
  \/ InitLoad
  \/ ConsentClick
  \/ CreateSessionSettles
  \/ NoConsentClick
  \/ ScreeningChange
  \/ ScreeningContinueClick
  \/ ComprehensionChange
  \/ StartClick
  \/ SliderInput
  \/ NextClick
  \/ TrialPostSettles
  \/ DemographicsInput
  \/ SubmitClick
  \/ DemographicsSettles
  \/ CompleteSettles
  \/ PopState

Spec == Init /\ [][Next]_vars

\* The session with a participant who moves the slider and clicks Next
\* whenever the trial page allows it, and with persistence calls that all
\* settle.
SpecLive ==
  /\ Init
  /\ [][Next]_vars
  /\ WF_vars(SliderInput)
  /\ WF_vars(NextClick)
  /\ WF_vars(TrialPostSettles)
  /\ WF_vars(DemographicsSettles)
  /\ WF_vars(CompleteSettles)

\* A page load in a browser whose localStorage holds the completion key of
\* an earlier visit.
InitRevisit ==
  /\ products = <<>>
  /\ nPairs \in 0..SessMaxNPairs
  /\ trials = <<>>
  /\ genPc = "idle"
  /\ regularTrials = <<>>
  /\ allTrials = <<>>
  /\ PageStart
  /\ completedFlag = TRUE
  /\ StoreStart
  /\ exportKey = Undefined

SpecRevisit == InitRevisit /\ [][Next]_vars

\* ------------------------------------------- the server: POST /api/session,
\* POST /api/trial, GET /api/export and the tables behind them

MaxStoreSessions == 1

\* SQL NULL (and JSON null).
Null == <<-2>>

\* The values of EXPORT_API_KEY that a deployment can have (unset, empty, a
\* key) and the key parameters a caller can send (none, empty, that key,
\* another key).
EnvKeys == {Undefined, <<>>, <<107>>}
QueryKeys == {Undefined, <<>>, <<107>>, <<120>>}

\* The body recordResponse sends: the trial's fields with the session id, the
\* slider value and the response time.  session_id: 0 is null, -1 a text that
\* is not a UUID, k >= 1 the UUID of the k-th row of the sessions table (or
\* of no row when the table has fewer rows).
TrialRequest(sid, body, rating) ==
  [session_id |-> sid, trial_number |-> body.trial_number, pair_id |-> body.pair_id,
   position |-> body.position, left_product_id |-> body.left_product_id,
   right_product_id |-> body.right_product_id, rating |-> rating,
   response_time_ms |-> 0, is_catch_trial |-> body.is_catch_trial,
   undefinedFields |-> {}, nullFields |-> {}, ratingIsNumber |-> TRUE]

\* Bodies that differ from one a page sends in one field.  undefinedFields
\* are the keys the JSON body does not have, nullFields the keys whose value
\* is null (the record's value of such a field means nothing); a rating that
\* is a text has ratingIsNumber FALSE.
TrialVariants ==
  {"no session_id", "session_id not uuid", "no trial_number", "null trial_number",
   "no pair_id", "empty pair_id", "no position", "other position", "no rating",
   "null rating", "text rating", "rating -1", "rating 0", "rating 100", "rating 101",
   "no response_time_ms"}

Variant(b, v) ==
  CASE v = "no session_id" -> [b EXCEPT !.undefinedFields = {"session_id"}]
    [] v = "session_id not uuid" -> [b EXCEPT !.session_id = -1]
    [] v = "no trial_number" -> [b EXCEPT !.undefinedFields = {"trial_number"}]
    [] v = "null trial_number" -> [b EXCEPT !.nullFields = {"trial_number"}]
    [] v = "no pair_id" -> [b EXCEPT !.undefinedFields = {"pair_id"}]
    [] v = "empty pair_id" -> [b EXCEPT !.pair_id = <<>>]
    [] v = "no position" -> [b EXCEPT !.undefinedFields = {"position"}]
    [] v = "other position" -> [b EXCEPT !.position = "XY"]
    [] v = "no rating" -> [b EXCEPT !.undefinedFields = {"rating"}]
    [] v = "null rating" -> [b EXCEPT !.nullFields = {"rating"}]
    [] v = "text rating" -> [b EXCEPT !.ratingIsNumber = FALSE]
    [] v = "rating -1" -> [b EXCEPT !.rating = -1]
    [] v = "rating 0" -> [b EXCEPT !.rating = 0]
    [] v = "rating 100" -> [b EXCEPT !.rating = 100]
    [] v = "rating 101" -> [b EXCEPT !.rating = 101]
    [] v = "no response_time_ms" -> [b EXCEPT !.undefinedFields = {"response_time_ms"}]

TrialRequestInvalid_OpenRange(b) ==
  LET falsy(f) == f \in b.undefinedFields \cup b.nullFields
  IN \/ falsy("session_id") \/ b.session_id = 0
     \/ "trial_number" \in b.undefinedFields
     \/ falsy("pair_id") \/ b.pair_id = <<>>
     \/ falsy("position")
     \/ "rating" \in b.undefinedFields
     \/ "response_time_ms" \in b.undefinedFields
     \/ b.session_id < 0
     \/ "rating" \in b.nullFields \/ ~b.ratingIsNumber \/ b.rating <= 0 \/ b.rating >= 100
     \/ b.position \notin {"AB", "BA"}

\* The 400 answers of the trial handler: a required field that is falsy
\* (session_id, pair_id, position) or undefined (trial_number, rating,
\* response_time_ms), a session_id that is no UUID, a rating that is not a
\* number or outside 0..100, a position other than 'AB' and 'BA'.
TrialRequestInvalid(b) ==
  LET falsy(f) == f \in b.undefinedFields \cup b.nullFields
  IN \/ falsy("session_id") \/ b.session_id = 0
     \/ "trial_number" \in b.undefinedFields
     \/ falsy("pair_id") \/ b.pair_id = <<>>
     \/ falsy("position")
     \/ "rating" \in b.undefinedFields
     \/ "response_time_ms" \in b.undefinedFields
     \/ b.session_id < 0
     \/ "rating" \in b.nullFields \/ ~b.ratingIsNumber \/ b.rating < 0 \/ b.rating > 100
     \/ b.position \notin {"AB", "BA"}

\* A NULL for a column that is NOT NULL (trial_number is part of the
\* primary key).
NotNullViolated(b) == b.nullFields \cap {"trial_number", "response_time_ms"} # {}

\* The row the INSERT statement writes: the seven destructured columns; the
\* data column is not named and takes its default, NULL.
TrialRow(b) ==
  [session_id |-> b.session_id, trial_number |-> b.trial_number, pair_id |-> b.pair_id,
   position |-> b.position, rating |-> b.rating, response_time_ms |-> b.response_time_ms,
   is_catch_trial |-> b.is_catch_trial, data |-> Null]

\* The primary key of the trials table.
SameKey(r, q) == r.session_id = q.session_id /\ r.trial_number = q.trial_number

InsertTrial_Upsert(rows, sessions, up, b) ==
  IF ~up \/ b.session_id > sessions \/ NotNullViolated(b) THEN [status |-> 500, rows |-> rows]
  ELSE [status |-> 201,
        rows |-> {r \in rows : ~SameKey(r, TrialRow(b))} \cup {TrialRow(b)}]

\* The INSERT and the catch block: a row of a session that does not exist
\* violates the foreign key (500), a NULL in a NOT NULL column is refused
\* (500), a second row with the key violates the
\* primary key (code 23505: 409), a database that is down gives 500.
InsertTrial(rows, sessions, up, b) ==
  IF ~up \/ b.session_id > sessions \/ NotNullViolated(b) THEN [status |-> 500, rows |-> rows]
  ELSE IF \E r \in rows : SameKey(r, TrialRow(b)) THEN [status |-> 409, rows |-> rows]
  ELSE [status |-> 201, rows |-> rows \cup {TrialRow(b)}]

\* data->>'field'
JsonText(data, field) == IF data = Null THEN Null ELSE data[field]

\* String(value) of a number that is not negative.
RECURSIVE Digits(_)
Digits(n) == IF n < 10 THEN <<48 + n>> ELSE Digits(n \div 10) \o <<48 + (n % 10)>>

\* One value of the CSV: null is the empty text (the texts of the model hold
\* no comma, quote or line break).
CsvValue(v) == IF v = Null THEN <<>> ELSE v

PositionText(p) == IF p = "AB" THEN <<65, 66>> ELSE <<66, 65>>

\* The exported columns of a session joined with one of its trials (the
\* session columns besides session_id are left out).
ExportRow(sid, t) ==
  [session_id |-> sid,
   trial_number |-> CsvValue(Digits(t.trial_number)),
   pair_id |-> CsvValue(t.pair_id),
   position |-> CsvValue(PositionText(t.position)),
   left_product_id |-> CsvValue(JsonText(t.data, "left_product_id")),
   right_product_id |-> CsvValue(JsonText(t.data, "right_product_id")),
   rating |-> CsvValue(Digits(t.rating))]

\* The row of a session without trials: the LEFT JOIN fills the trial columns
\* with NULL.
ExportRowNoTrial(sid) ==
  [session_id |-> sid, trial_number |-> CsvValue(Null), pair_id |-> CsvValue(Null),
   position |-> CsvValue(Null), left_product_id |-> CsvValue(Null),
   right_product_id |-> CsvValue(Null), rating |-> CsvValue(Null)]

RECURSIVE SortedByNumber(_)
SortedByNumber(rows) ==
  IF rows = {} THEN <<>>
  ELSE LET r == CHOOSE x \in rows : \A q \in rows : x.trial_number <= q.trial_number
       IN <<r>> \o SortedByNumber(rows \ {r})

\* sessions LEFT JOIN trials of one session, ordered by trial number.
JoinedRows(sid, rows) ==
  LET mine == SortedByNumber({r \in rows : r.session_id = sid})
  IN IF mine = <<>> THEN <<ExportRowNoTrial(sid)>>
     ELSE [k \in 1..Len(mine) |-> ExportRow(sid, mine[k])]

\* The lines of the CSV below the header, sessions in the order of creation.
RECURSIVE ExportRows(_, _)
ExportRows(sessions, rows) ==
  IF sessions = 0 THEN <<>>
  ELSE ExportRows(sessions - 1, rows) \o JoinedRows(sessions, rows)

ExportAuthorized_KeyOnly(env, key) == key = env

\* The API key check of the export handler.
ExportAuthorized(env, key) == ~(env = Undefined \/ env = <<>> \/ key # env)

\* POST /api/session: 400 without experiment_name, else a new row and 201,
\* or 500 when the INSERT fails.
PostSession ==
  /\ \E named \in BOOLEAN :
       /\ request' = [endpoint |-> "session", experiment_name |-> named]
       /\ IF ~named THEN reply' = [status |-> 400] /\ UNCHANGED serverSessions
          ELSE IF ~dbUp THEN reply' = [status |-> 500] /\ UNCHANGED serverSessions
          ELSE /\ serverSessions < MaxStoreSessions
               /\ serverSessions' = serverSessions + 1
               /\ reply' = [status |-> 201, session_id |-> serverSessions + 1]
  /\ UNCHANGED <<genVars, sentSessionIds, loading, initAlert, listeners, page, visiblePages, sessionId, sessionPosts,
                 consentPending, screeningVars, instructionVars, trialVars, demoVars,
                 trialRows, recorded, dbUp, exportKey>>

\* POST /api/trial with the body a page sends for its n-th trial (the rating
\* is the slider value, any of 0..100), for a session id that a creation
\* returned or will return.
PostTrial ==
  /\ \E sid \in 1..MaxStoreSessions, n \in 1..Len(trials) :
       LET b == TrialRequest(sid, TrialBody(trials[n], n), 50)
           ins == InsertTrial(trialRows, serverSessions, dbUp, b)
       IN /\ request' = [endpoint |-> "trial", body |-> b]
          /\ IF TrialRequestInvalid(b)
             THEN reply' = [status |-> 400] /\ UNCHANGED <<trialRows, recorded>>
             ELSE /\ reply' = [status |-> ins.status]
                  /\ trialRows' = ins.rows
                  /\ recorded' = IF ins.status = 201 THEN recorded \cup {b} ELSE recorded
  /\ UNCHANGED <<genVars, sentSessionIds, loading, initAlert, listeners, page, visiblePages, consentVars, screeningVars,
                 instructionVars, trialVars, demoVars, dbUp, exportKey>>

\* POST /api/trial with a body that another client can send: the body of the
\* first trial for the first session, changed in one field.
PostTrialOther ==
  /\ \E v \in TrialVariants :
       LET b == Variant(TrialRequest(1, TrialBody(trials[1], 1), 50), v)
           ins == InsertTrial(trialRows, serverSessions, dbUp, b)
       IN /\ request' = [endpoint |-> "trial", body |-> b]
          /\ IF TrialRequestInvalid(b)
             THEN reply' = [status |-> 400] /\ UNCHANGED <<trialRows, recorded>>
             ELSE /\ reply' = [status |-> ins.status]
                  /\ trialRows' = ins.rows
                  /\ recorded' = IF ins.status = 201 THEN recorded \cup {b} ELSE recorded
  /\ UNCHANGED <<genVars, sentSessionIds, loading, initAlert, listeners, page, visiblePages, consentVars, screeningVars,
                 instructionVars, trialVars, demoVars, dbUp, exportKey>>

\* GET /api/export?key=...
GetExport ==
  /\ \E key \in QueryKeys :
       /\ request' = [endpoint |-> "export", key |-> key]
       /\ reply' = IF ~ExportAuthorized(exportKey, key) THEN [status |-> 401]
                   ELSE IF ~dbUp THEN [status |-> 500]
                   ELSE [status |-> 200, rows |-> ExportRows(serverSessions, trialRows)]
  /\ UNCHANGED <<genVars, sentSessionIds, loading, initAlert, listeners, page, visiblePages, consentVars, screeningVars,
                 instructionVars, trialVars, demoVars, trialRows, recorded, dbUp, exportKey>>

\* The database goes down or comes back.
DbChange ==
  /\ dbUp' = ~dbUp
  /\ UNCHANGED <<genVars, sentSessionIds, loading, initAlert, listeners, page, visiblePages, consentVars, screeningVars,
                 instructionVars, trialVars, demoVars, trialRows, recorded, exportKey,
                 request, reply>>

\* A deployed server with an empty database, and the trials of one page load
\* of a catalog of two products.
ServerInit ==
  /\ products = <<Product(IdB), Product(IdA)>>
  /\ nPairs = 1
  /\ trials \in GeneratedTrials(products, nPairs)
  /\ genPc = "done"
  /\ regularTrials = <<>>
  /\ allTrials = <<>>
  /\ PageStart
  /\ completedFlag = FALSE
  /\ StoreStart
  /\ exportKey \in EnvKeys

ServerNext == PostSession \/ PostTrial \/ PostTrialOther \/ GetExport \/ DbChange

SpecServer == ServerInit /\ [][ServerNext]_vars

\* ------------------------------------------------ the checks of the survey
\* test script

\* expectedPosition(leftId, rightId)
ExpectedPosition(leftId, rightId) ==
  IF leftId = SortTwo(leftId, rightId)[1] THEN "AB" ELSE "BA"

\* expectedPairId(leftId, rightId)
ExpectedPairId(leftId, rightId) == JoinUnderscore(SortTwo(leftId, rightId))

\* n choose 2
Choose2(n) == (n * (n - 1)) \div 2

HasSeparator(id) == \E p \in 1..Len(id) : id[p] = Underscore

Generated == genPc = "done"

\* The ids of a catalog.
Ids(prods) == { prods[k].id : k \in 1..Len(prods) }

RegularIndexes == { k \in 1..Len(trials) : ~trials[k].isCatchTrial }
CatchIndexes == { k \in 1..Len(trials) : trials[k].isCatchTrial }

\* ------------------------------------------------------------------ claims

\* C1: in every generated sequence, every trial (the catch trial included)
\* has position 'AB' exactly when its left id is the smaller of its two ids
\* in sort order, and the pairId is the join of the same sorted order.
C1_PositionAgreesWithSort ==
  Generated =>
    \A k \in 1..Len(trials) :
      /\ trials[k].position = ExpectedPosition(trials[k].left.id, trials[k].right.id)
      /\ (trials[k].position = "AB") = ~StrLess(trials[k].right.id, trials[k].left.id)
      /\ trials[k].pairId = ExpectedPairId(trials[k].left.id, trials[k].right.id)

\* C1 witness: a generated sequence that holds a regular trial shown in
\* sorted order, a regular trial shown in reverse order whose left product
\* comes first in the catalog (the coin put productA on the left), and the
\* catch trial.
C1_Witness ==
  /\ Generated
  /\ \E k \in RegularIndexes : trials[k].position = "AB"
  /\ \E k \in RegularIndexes :
        /\ trials[k].position = "BA"
        /\ \E i \in 1..Len(products) : \E j \in 1..Len(products) :
              /\ i < j
              /\ products[i] = trials[k].left
              /\ products[j] = trials[k].right
  /\ CatchIndexes # {}

\* C2: no two regular trials of a generated sequence have the same pairId
\* (catalog of unique ids, N_PAIRS <= C(n,2)).
C2_NoDuplicatePairId ==
  (Generated /\ nPairs <= Choose2(Len(products))) =>
    \A k \in RegularIndexes : \A m \in RegularIndexes :
      trials[k].pairId = trials[m].pairId => k = m

C5_ExportRoundTrip ==
  Generated =>
    \A k \in 1..Len(trials) :
      (~HasSeparator(trials[k].left.id) /\ ~HasSeparator(trials[k].right.id)) =>
        /\ ExportLeft(trials[k].pairId, trials[k].position) = trials[k].left.id
        /\ ExportRight(trials[k].pairId, trials[k].position) = trials[k].right.id

\* C5 witness: a generated sequence with a regular trial of separator-free
\* ids shown in reverse order, and a catch trial of a separator-free id.
C5_Witness ==
  /\ Generated
  /\ \E k \in RegularIndexes :
        /\ ~HasSeparator(trials[k].left.id)
        /\ ~HasSeparator(trials[k].right.id)
        /\ trials[k].position = "BA"
  /\ \E k \in CatchIndexes : ~HasSeparator(trials[k].left.id)

\* C6: the bodies sent to /api/trial are numbered 1, 2, ... in order, the
\* body numbered k carries trials[k-1], and once the trials are over there
\* is one body per trial.
C6_OneRecordPerTrialInOrder ==
  /\ \A k \in 1..Len(trialPosts) :
        /\ k <= Len(trials)
        /\ trialPosts[k] = TrialBody(trials[k], k)
  /\ (page \in {"demographics", "complete"}) => Len(trialPosts) = Len(trials)

\* C7: currentTrial starts at 0, changes only by +1 and only when the
\* response of the current trial has been recorded, and once it has reached
\* trials.length the trial page is never shown again.
C7_OnlyForward ==
  /\ currentTrial = 0
  /\ [][ /\ \/ currentTrial' = currentTrial
            \/ currentTrial' = currentTrial + 1 /\ Len(results) > currentTrial
         /\ (listeners /\ currentTrial' >= Len(trials')) => page' # "trial" ]_vars

\* C8: advancing does not wait for the persistence call: whenever a
\* response has been sent to /api/trial, currentTrial is already past that
\* trial, also while the call has not settled.
C8_AdvancedWhilePending ==
  \A k \in 1..Len(trialPosts) : currentTrial >= trialPosts[k].trial_number

\* C9: a step in which a failed POST /api/trial is logged increments
\* currentTrial, keeps the local results, and shows the next trial or, after
\* the last trial, the demographics page.
C9_FailedCallStillAdvances ==
  [][ failedTrialLog' > failedTrialLog =>
        /\ failedTrialLog' = failedTrialLog + 1
        /\ currentTrial' = currentTrial + 1
        /\ results' = results
        /\ Len(results) > currentTrial
        /\ IF currentTrial' < Len(trials)
           THEN shown' = currentTrial' /\ page' = page
           ELSE page' = "demographics" ]_vars

\* C9 witness: every persistence call of a two-trial session failed and the
\* session is on the demographics page with both local results.
C9_Witness ==
  /\ Len(trials) = 2
  /\ failedTrialLog = 2
  /\ currentTrial = 2
  /\ Len(results) = 2
  /\ page = "demographics"

\* C10: when the completion page is shown, exactly one session has been
\* started through POST /api/session and exactly one POST /api/complete has
\* been issued.
C10_StartedAndCompletedOnce ==
  page = "complete" => (serverSessions = 1 /\ completePosts = 1)

\* C11: when N_PAIRS exceeds C(n,2), generation fails and no trial sequence
\* is produced.
C11_NoSequenceWhenTooManyPairs ==
  nPairs > Choose2(Len(products)) => (genPc # "done" /\ trials = <<>>)

\* C12: after init() has loaded a catalog of fewer than 2 products it has
\* raised the alert, trials is empty, no handler is installed, no session
\* has been requested or created and no trial is on the trial page.
C12_TooFewProductsStops ==
  (~loading /\ initAlert # "loadFailed" /\ Len(products) < 2) =>
    /\ initAlert = "tooFew"
    /\ trials = <<>>
    /\ ~listeners
    /\ sessionPosts = 0
    /\ serverSessions = 0
    /\ shown = -1
    /\ page = "consent"

\* C12 witness: init() has returned on a catalog of one product.
C12_Witness ==
  /\ ~loading
  /\ Len(products) = 1
  /\ initAlert = "tooFew"

\* C13: in every generated sequence, the two ids of a regular trial differ.
C13_RegularTrialHasTwoProducts ==
  Generated => \A k \in RegularIndexes : trials[k].left.id # trials[k].right.id

\* C13 witness: a generated sequence that holds every pair of a catalog of
\* three products.
C13_Witness ==
  /\ Generated
  /\ Len(products) = 3
  /\ Cardinality(RegularIndexes) = 3

C15_AllPairsOnce ==
  (Generated /\ nPairs = Choose2(Len(products))) =>
    /\ { trials[k].pairId : k \in RegularIndexes }
         = { ExpectedPairId(q[1], q[2]) :
               q \in { w \in Ids(products) \X Ids(products) : w[1] # w[2] } }
    /\ \A a \in Ids(products) : \A b \in Ids(products) :
          a # b =>
            Cardinality({ k \in RegularIndexes :
                            {trials[k].left.id, trials[k].right.id} = {a, b} }) = 1
    /\ Cardinality(RegularIndexes) = Choose2(Len(products))
    /\ Cardinality(CatchIndexes) = 1
    /\ \A k \in CatchIndexes :
          /\ trials[k].left.id = trials[k].right.id
          /\ trials[k].left.id \in Ids(products)

\* C15 witness: a sequence generated from three products with N_PAIRS = 3.
C15_Witness ==
  /\ Generated
  /\ Len(products) = 3
  /\ nPairs = 3
  /\ Len(trials) = 4

\* C16: with N_PAIRS = 0 the generated sequence has length 1 and its only
\* trial is the catch trial.
C16_OnlyCatchTrial ==
  (Generated /\ nPairs = 0) =>
    /\ Len(trials) = 1
    /\ trials[1].isCatchTrial
    /\ trials[1].left.id = trials[1].right.id

\* C16 witness: a sequence generated from three products with N_PAIRS = 0.
C16_Witness ==
  /\ Generated
  /\ nPairs = 0
  /\ Len(products) = 3
  /\ trials # <<>>

\* C17: trials is assigned only by the one step in which init() runs
\* generateTrials(), with no handler installed and no trial on the trial
\* page; no later step changes it; and the index of the trial on the trial
\* page only goes from none to 0 and then up by one.
C17_GeneratedOnceVisitedInOrder ==
  [][ /\ trials' # trials =>
           /\ loading /\ ~loading'
           /\ ~listeners
           /\ shown = -1
           /\ page = "consent"
      /\ ~loading => trials' = trials
      /\ shown' = shown \/ shown' = shown + 1 ]_vars

\* C17 witness: a session over a sequence of two trials is complete and the
\* second trial was the last one on the trial page.
C17_Witness ==
  /\ page = "complete"
  /\ Len(trials) = 2
  /\ shown = 1
  /\ Len(results) = 2

\* C18: no step of generateTrials() changes the products array: it holds
\* the same items in the same order before and after every step.
C18_CatalogIsReadOnly ==
  [][products' = products]_vars

\* C18 witness: generateTrials() has returned on a catalog of three
\* products with both shuffles having moved entries (the first trial is not
\* the first pair of the loops, the catch trial is not last) and the
\* catalog is still in its loaded, unsorted order.
C18_Witness ==
  /\ Generated
  /\ Len(products) = 3
  /\ Len(trials) = 4
  /\ ~trials[4].isCatchTrial
  /\ {trials[1].left, trials[1].right} # {products[1], products[2]}
  /\ StrLess(products[2].id, products[1].id)

\* C19: two formatted trials with the same left id and the same right id
\* carry the same position, whatever the order of productA and productB and
\* whatever the coin that produced the layout.
C19_PositionDependsOnLayoutOnly ==
  Generated =>
    \A k \in 1..Len(trials) : \A m \in 1..Len(trials) :
      (trials[k].left.id = trials[m].left.id /\ trials[k].right.id = trials[m].right.id)
        => trials[k].position = trials[m].position

\* C19 witness: two regular trials of the same pair, built with productA
\* and productB in opposite orders and opposite coins, show the same layout
\* with the higher id on the left.
C19_Witness ==
  /\ Generated
  /\ Len(trials) = 2
  /\ ~trials[1].isCatchTrial
  /\ ~trials[2].isCatchTrial
  /\ trials[1].left.id = trials[2].left.id
  /\ trials[1].right.id = trials[2].right.id
  /\ StrLess(trials[1].right.id, trials[1].left.id)
  /\ trials[2].position = "BA"

\* C20: the legacy and the current derivation of position are not
\* equivalent: for the pair of ids "a" and "B", in either layout, the legacy
\* formatting of the layout a generated trial shows carries the other
\* label than the trial; for the pairs of the catalog that both sort orders
\* order alike the labels are the same.
C20_LegacyPositionDiffers ==
  Generated =>
    \A k \in RegularIndexes : \A aOnLeft \in BOOLEAN :
      LET legacy == LegacyFormatTrial(<<trials[k].left, trials[k].right>>, aOnLeft)
      IN (legacy.left = trials[k].left /\ legacy.right = trials[k].right) =>
           IF {trials[k].left.id, trials[k].right.id} = {IdLowerA, IdB}
           THEN legacy.position # trials[k].position
           ELSE legacy.position = trials[k].position

\* C20 witness: a generated trial shows "a" on the left and "B" on the
\* right with position 'BA', and the legacy formatting gives the same
\* layout the label 'AB'.
C20_Witness ==
  /\ Generated
  /\ \E k \in RegularIndexes :
        /\ trials[k].left.id = IdLowerA
        /\ trials[k].right.id = IdB
        /\ trials[k].position = "BA"
        /\ LegacyFormatTrial(<<trials[k].left, trials[k].right>>, TRUE).left = trials[k].left
        /\ LegacyFormatTrial(<<trials[k].left, trials[k].right>>, TRUE).position = "AB"

\* C21: for a catalog with an entry that has no id, no trial sequence is
\* generated.
C21_MalformedEntryStops ==
  (\E k \in 1..Len(products) : products[k].id = Undefined) =>
    (genPc # "done" /\ trials = <<>>)

\* The export holds a line for the trial of body b with the ids of b.
ExportedAsSent(rows, b) ==
  \E i \in 1..Len(rows) :
    /\ rows[i].session_id = b.session_id
    /\ rows[i].trial_number = Digits(b.trial_number)
    /\ rows[i].left_product_id = b.left_product_id
    /\ rows[i].right_product_id = b.right_product_id

\* C22: in an export, every trial that was recorded through POST /api/trial
\* has the left_product_id and right_product_id that the page sent for it.
C22_ExportedIdsAsSent ==
  (request.endpoint = "export" /\ reply.status = 200) =>
    \A b \in recorded : ExportedAsSent(reply.rows, b)

NoDuplicateKey == \A r \in trialRows : \A q \in trialRows : SameKey(r, q) => r = q

\* C25: the trials table never holds two rows with the same session_id and
\* trial_number, and a valid POST /api/trial for a key that is already stored
\* is answered 409 and leaves the table as it is.
C25_OneRowPerTrialNumber ==
  /\ []NoDuplicateKey
  /\ [][(/\ request'.endpoint = "trial"
         /\ dbUp /\ dbUp'
         /\ ~TrialRequestInvalid(request'.body)
         /\ request'.body.nullFields = {}
         /\ \E r \in trialRows : SameKey(r, TrialRow(request'.body)))
        => (reply'.status = 409 /\ trialRows' = trialRows)]_vars

\* A second POST with another content for a stored key was answered 409.
C25_Witness ==
  /\ request.endpoint = "trial"
  /\ reply.status = 409
  /\ TrialRow(request.body) \notin trialRows
  /\ \E r \in trialRows : SameKey(r, TrialRow(request.body))

\* C26: GET /api/export answers 401 unless EXPORT_API_KEY is set to a text
\* that is not empty and the key parameter equals it; rows are sent in no
\* other case.
C26_ExportNeedsConfiguredKey ==
  request.endpoint = "export" =>
    IF exportKey # Undefined /\ exportKey # <<>> /\ request.key = exportKey
    THEN reply.status \in {200, 500}
    ELSE reply.status = 401

\* With the variable unset, a request without key parameter was refused, the
\* table holding a trial.
C26_Witness ==
  /\ exportKey = Undefined
  /\ request.endpoint = "export"
  /\ request.key = Undefined
  /\ reply.status = 401
  /\ trialRows # {}

\* C23: Next is enabled only after a slider input on the trial that is shown,
\* and a response is recorded and currentTrial advanced only for a shown
\* trial whose slider has been moved.
C23_NextNeedsSliderMove ==
  /\ [](~nextDisabled => sliderMoved)
  /\ [][/\ Len(results') > Len(results) => (sliderMoved /\ shown = currentTrial)
        /\ currentTrial' # currentTrial => (sliderMoved /\ shown = currentTrial)]_vars

\* C24: when the completion key is in localStorage at page load, init() shows
\* the already-completed page instead of the consent page and no session is
\* created.
C24_RevisitShowsAlreadyCompleted ==
  (completedFlag /\ completePosts = 0) =>
    /\ sessionPosts = 0
    /\ ~loading => page = "alreadyCompleted"

\* C27: currentTrial stays between 0 and trials.length, and showTrial() and
\* recordResponse() never run with currentTrial at or beyond trials.length
\* (they would read trials[currentTrial] as undefined and throw).
C27_CurrentTrialWithinSequence ==
  /\ 0 <= currentTrial
  /\ currentTrial <= Len(trials)
  /\ ~typeError

\* C28: the instructions and the trial page are shown only with a session
\* created and sq2 answered 'yes', the trial page only with the comprehension
\* answers correct, and once the screening-failed page has been shown (its
\* closing message set) the instructions and the trial page are never shown.
C28_GatesInOrder ==
  /\ [](page \in {"instructions", "trial"} => (sessionId # 0 /\ sq2 = "yes"))
  /\ [](page = "trial" => comp = "correct")
  /\ [](redirectMessage => page \notin {"instructions", "trial"})

\* C29: a Start click with an answer that is not correct shows the
\* comprehension error, stays on the instructions page and leaves startTime
\* unset; the Start button stays usable while the error is shown; a Start
\* click with correct answers hides the error, sets startTime and shows the
\* first trial on the trial page.
C29_WrongAnswerCanBeRetried ==
  /\ []((page = "instructions" /\ ~errorHidden) => (listeners /\ ~startDisabled))
  /\ [][/\ (errorHidden /\ ~errorHidden') =>
             /\ comp # "correct"
             /\ page = "instructions" /\ page' = "instructions"
             /\ ~startTimeSet => ~startTimeSet'
        /\ (page = "instructions" /\ page' = "trial") =>
             /\ comp = "correct"
             /\ errorHidden'
             /\ startTimeSet'
             /\ shown' = 0
        /\ (~errorHidden /\ errorHidden') => (page = "instructions" /\ page' = "trial")]_vars

C31_CallsCarryTheSessionId ==
  /\ \A id \in sentSessionIds : id # 0 /\ id <= serverSessions
  /\ \A id \in sentSessionIds : \A other \in sentSessionIds : id = other

\* C32: when POST /api/complete has been issued or the completion page is
\* shown, currentTrial has reached trials.length, a response for the last
\* trial has been recorded, and a demographics call has settled.
C32_CompletionAfterLastTrialAndDemographics ==
  (completePosts > 0 \/ page = "complete") =>
    /\ currentTrial >= Len(trials)
    /\ \E k \in 1..Len(trialPosts) : trialPosts[k].trial_number = Len(trials)
    /\ demoPosts - demoPending >= 1

C34_WellFormed(b) ==
  /\ b.undefinedFields = {}
  /\ b.nullFields \cap {"session_id", "pair_id", "position", "rating"} = {}
  /\ b.session_id >= 1
  /\ b.pair_id # <<>>
  /\ b.ratingIsNumber /\ b.rating \in 0..100
  /\ b.position \in {"AB", "BA"}

\* C34: POST /api/trial answers 400 exactly for the bodies that do not meet
\* the conditions, and a step that changes the trials table is the handling
\* of a body that meets them.
C34_OnlyValidTrialsStored ==
  /\ [](request.endpoint = "trial" => (reply.status = 400 <=> ~C34_WellFormed(request.body)))
  /\ [][trialRows' # trialRows =>
          /\ request'.endpoint = "trial"
          /\ C34_WellFormed(request'.body)
          /\ reply'.status = 201
          /\ trialRows' = trialRows \cup {TrialRow(request'.body)}]_vars

\* A rating of 101 was refused, the table holding a row with rating 100.
C34_Witness ==
  /\ request.endpoint = "trial"
  /\ request.body.rating = 101
  /\ reply.status = 400
  /\ \E r \in trialRows : r.rating = 100

\* C35: once init() has installed the handlers, exactly one of the nine
\* pages is visible: the argument of the last showPage call, or the consent
\* page before the first call.
C35_OnePageVisible ==
  listeners => (Cardinality(visiblePages \cap AllPages) = 1 /\ visiblePages = {page})

\* The trial page alone is visible, after at least three showPage calls.
C35_Witness ==
  /\ listeners
  /\ visiblePages = {"trial"}
  /\ currentTrial > 0

\* C36: the catch trial gets position 'AB' whichever way the coin of the
\* left/right assignment falls, and carries it in the generated sequence.
C36_CatchTrialIsAB ==
  /\ \A i \in 1..Len(allTrials) :
       allTrials[i].isCatchTrial =>
         \A aOnLeft \in BOOLEAN : FormatTrial(allTrials[i], aOnLeft).position = "AB"
  /\ \A i \in 1..Len(trials) : trials[i].isCatchTrial => trials[i].position = "AB"

\* A generated sequence with two regular trials, one of them 'BA', and the
\* catch trial between them.
C36_Witness ==
  /\ genPc = "done"
  /\ Len(trials) = 3
  /\ trials[2].isCatchTrial
  /\ trials[1].position = "BA"

\* C37: for the catalog and N_PAIRS of a page load and every index i from 0
\* to N_PAIRS, some choice of the random draws of generateTrials() puts the
\* catch trial at index i.
C37_CatchTrialAtEveryIndex ==
  genPc = "pairs" =>
    \A i \in 0..nPairs :
      \E t \in GeneratedTrials(products, nPairs) : Len(t) > i /\ t[i + 1].isCatchTrial

\* C38: whenever the completion page is shown, the completion key is in
\* localStorage unless setItem has thrown, while the completion call is
\* pending and after it has settled.
C38_CompletionPageSetsFlag ==
  page = "complete" => (completedFlag \/ storageError)

\* The completion page is shown, the completion call has settled and the key
\* is stored.
C38_Witness ==
  /\ page = "complete"
  /\ completePosts = 1
  /\ completePending = 0
  /\ completedFlag
  /\ ~storageError

\* The arrays generateTrials() hands to shuffleArray in the current state:
\* the enumerated pairs, and the sliced pairs with a catch trial appended.
ShuffledArrays ==
  IF genPc = "pairs" THEN { AllPairs(products) }
  ELSE IF genPc = "catch"
    THEN { Append(regularTrials, CatchTrial(products, c)) : c \in 1..Len(products) }
    ELSE {}

\* The number of positions of array that hold the entry x.
Occurrences(array, x) == Cardinality({ k \in 1..Len(array) : array[k] = x })

\* C39: for every array handed to shuffleArray and every sequence of draws,
\* the loop ends after length - 1 swap steps and the result has the length
\* of the array and holds every entry as often as the array did.
C39_ShuffleIsPermutation ==
  \A array \in ShuffledArrays :
    \A d \in ShuffleDraws(Len(array)) :
      LET result == ShuffleArray(array, d)
      IN  /\ ShuffleSteps(array, d, Len(array)) = Len(array) - 1
          /\ Len(result) = Len(array)
          /\ \A k \in 1..Len(array) :
                Occurrences(result, array[k]) = Occurrences(array, array[k])

\* C39 witness: three pairs, two of them equal, have been shuffled into an
\* order other than the enumerated one.
C39_Witness ==
  /\ genPc = "catch"
  /\ Len(regularTrials) = 3
  /\ \E k \in 1..3 : Occurrences(regularTrials, regularTrials[k]) = 2
  /\ regularTrials # AllPairs(products)

====
